---- MODULE Spec2Model ----
(***************************************************************************)
(* Model of the summary bot worker (src/worker.py): the FastAPI endpoints  *)
(* /api/summary and /webhook/{secret}, the Telegram command handlers, the   *)
(* retry loop around the SMAIPL chat-completions call with its local        *)
(* fallback summary, and the startup/shutdown lifecycle of the Telegram     *)
(* application.  Texts are sequences of one-character strings.              *)
(***************************************************************************)
EXTENDS Integers, Sequences, FiniteSets, TLC

(***************************************************************************)
(* Bounds of the model and constants of the program.                       *)
(***************************************************************************)
\* Every text over Alphabet of at most this length is an input.
MaxTextLen == 2

\* The loop with one attempt less.
TwoAttempts == 3 - 1
\* worker.py:174  for attempt in range(1, 4)
MaxAttempts == 3
\* worker.py:150  cut = text[:2000]
FallbackCut == 2000
\* worker.py:153  head = parts[:5]
MaxHead == 5
\* The chat transport's documented maximum length of one text message.
TransportLimit == 4096

None == "None"

Tasks == {"t1", "t2"}

(***************************************************************************)
(* Texts.                                                                   *)
(***************************************************************************)
Rep(c, n) == [i \in 1..n |-> c]

\* What str.strip() removes.
IsSpace(c) == c \in {" ", "\n", "\t"}

\* No stripping at all.
NoStrip(s) == s

\* str.strip(): the text without its leading and trailing whitespace.
Strip(s) ==
    LET first == {i \in 1..Len(s) : ~IsSpace(s[i]) /\ \A j \in 1..(i-1) : IsSpace(s[j])}
        last  == {i \in 1..Len(s) : ~IsSpace(s[i]) /\ \A j \in (i+1)..Len(s) : IsSpace(s[j])}
    IN  IF first = {} THEN <<>>
        ELSE SubSeq(s, CHOOSE i \in first : TRUE, CHOOSE i \in last : TRUE)

\* text[:n]
Prefix(s, n) == SubSeq(s, 1, IF Len(s) < n THEN Len(s) ELSE n)

\* str.replace("\n", " ")
ReplaceNewlines(s) == [i \in 1..Len(s) |-> IF s[i] = "\n" THEN " " ELSE s[i]]

\* str.split("."): the pieces between the dots, empty pieces included.
RECURSIVE SplitDot(_)
SplitDot(s) ==
    LET dots == {i \in 1..Len(s) : s[i] = "." /\ \A j \in 1..(i-1) : s[j] # "."}
    IN  IF dots = {} THEN <<s>>
        ELSE LET d == CHOOSE i \in dots : TRUE
             IN  <<SubSeq(s, 1, d - 1)>> \o SplitDot(SubSeq(s, d + 1, Len(s)))

\* [p.strip() for p in pieces if p.strip()]
RECURSIVE StripNonEmpty(_)
StripNonEmpty(ps) ==
    IF ps = <<>> THEN <<>>
    ELSE LET p == Strip(Head(ps))
         IN  (IF p = <<>> THEN <<>> ELSE <<p>>) \o StripNonEmpty(Tail(ps))

\* "\n".join([f"- {p}." for p in head])
RECURSIVE JoinBullets(_)
JoinBullets(ps) ==
    IF ps = <<>> THEN <<>>
    ELSE <<"-", " ">> \o Head(ps) \o <<".">>
         \o (IF Len(ps) > 1 THEN <<"\n">> \o JoinBullets(Tail(ps)) ELSE <<>>)

\* "Фолбэк-резюме (LLM недоступна):\n", letter for letter in Latin script.
FallbackHeader ==
    <<"F","o","l","b","e","k","-","r","e","z","u","m","e"," ","(","L","L","M"," ",
      "n","e","d","o","s","t","u","p","n","a",")",":","\n">>

\* "Пустой текст — нечего суммаризировать."
EmptyTextNotice == <<"P","u","s","t","o","i"," ","t","e","k","s","t",".">>

\* parts of naive_fallback_summary: the stripped non-empty sentences of the cut.
FallbackParts(text) ==
    StripNonEmpty(SplitDot(ReplaceNewlines(Prefix(Strip(text), FallbackCut))))

\* parts[-5:], the last sentences instead of the first.
LastFive(parts) ==
    SubSeq(parts, IF Len(parts) > MaxHead THEN Len(parts) - MaxHead + 1 ELSE 1, Len(parts))

\* head = parts[:5]
FallbackHead(parts) == Prefix(parts, MaxHead)

naive_fallback_summary(text) ==
    LET t    == Strip(text)
        cut  == Prefix(t, FallbackCut)
        head == FallbackHead(FallbackParts(text))
        bullets == IF head # <<>> THEN JoinBullets(head) ELSE cut
    IN  IF t = <<>> THEN EmptyTextNotice
        ELSE FallbackHeader \o bullets

(***************************************************************************)
(* Inputs.                                                                  *)
(***************************************************************************)
Alphabet == {"a", ".", " "}

\* Every text over Alphabet of length at most n.
RECURSIVE TextsUpTo(_)
TextsUpTo(n) ==
    IF n = 0 THEN {<<>>}
    ELSE LET shorter == TextsUpTo(n - 1)
         IN  shorter \cup {Append(s, c) : s \in shorter, c \in Alphabet}

\* Six sentences on three lines, with whitespace around them.
SixSentences ==
    <<" ", "a", ".", "b", ".", "\n", "c", ".", " ", "d", ".", "\n", "e", ".", "f", ".", "\n">>
\* Text without a single sentence.
OnlyDots == <<".", " ", ".">>
\* A text longer than the cut: a long sentence, then "bc." across the cut.
LongText == Rep("a", FallbackCut - 2) \o <<".", "b", "c", ".">>

Texts == TextsUpTo(MaxTextLen) \cup {<<"\n", " ">>, SixSentences, OnlyDots, LongText}

\* A few of them: an empty one, a blank one, and two with something to summarize.
FewTexts == {<<>>, <<"\n", " ">>, <<"a", ".">>, <<" ", "b", ".", "c">>}

\* Answers of the backend: a short one and one longer than a chat message may be.
ShortAnswer == <<"o", "k">>
LongAnswer == Rep("x", TransportLimit + 1)
Answers == {ShortAnswer, LongAnswer}
\* The JSON text of a well-formed response body without choices[0].message.content.
OddJson == <<"{", "d", "o", "n", "e", "}">>

\* A response body that is not JSON.
NotJson == <<"<", "h", "t", "m", "l", ">">>

GoodSecret == "s3cret"
\* Values of an optional header.
HeaderValues == {None, GoodSecret, "wrong"}
\* Values of the {secret} path segment.
PathSecrets == {GoodSecret, "wrong"}
Commands == {"start", "summary", "other"}

Envs ==
    [BOT_TOKEN : {"", "token"}, WEBHOOK_SECRET : {"", GoodSecret},
     SMAIPL_API_KEY : {"", "key"}, PUBLIC_BASE_URL : {"", "url"},
     SEND_TO_SMAIPL : BOOLEAN]

\* What one call of smaipl_chat_completion can meet once the key is set.
HttpFailures == {"timeout", "http_5xx", "http_4xx", "unparseable"}
Transient == {"timeout", "http_5xx"}

(***************************************************************************)
(* State.                                                                   *)
(***************************************************************************)
VARIABLES
    env,        \* the module-level settings read from the environment
    tg_app,     \* the global tg_app: "None", or the state of the Application
    startup,    \* position of on_startup
    shutdown,   \* position of on_shutdown
    task        \* per request task: its request, locals and results

vars == <<env, tg_app, startup, shutdown, task>>

NoRequest ==
    [kind |-> "none", key |-> None, secret |-> None, header |-> None,
     cmd |-> None, reply |-> "none", text |-> <<>>]

IdleTask ==
    [pc |-> "idle", req |-> NoRequest, source_text |-> <<>>, attempt |-> 0,
     log |-> <<>>, user_text |-> <<>>, summary |-> <<>>, out |-> <<>>,
     status |-> 0, handed |-> None, push |-> None]

Init ==
    /\ env \in Envs
    /\ tg_app = None
    /\ startup = "pending"
    /\ shutdown = "pending"
    /\ task = [t \in Tasks |-> IdleTask]

(***************************************************************************)
(* The summarizer call, the retry loop and the fallback.                    *)
(***************************************************************************)
\* "ТЕКСТ:\n"
TextLabel == <<"T", "E", "K", "S", "T", ":", "\n">>

\* user_text = f"ТЕКСТ:\n{source_text}"
UserText(source_text) == TextLabel \o source_text

\* What the HTTP exchange of one call can be.
HttpOutcomes ==
    {[kind |-> "ok", content |-> a] : a \in Answers}
    \cup {[kind |-> "odd_shape", content |-> OddJson]}
    \cup {[kind |-> "unparseable", content |-> NotJson]}
    \cup {[kind |-> f, content |-> <<>>] : f \in HttpFailures \ {"unparseable"}}
NoHttp == [kind |-> "none", content |-> <<>>]

\* The exchanges a call can meet: none is made without the key.
Exchanges(key) == IF key = "" THEN {NoHttp} ELSE HttpOutcomes

\* The call raised / returned; kind and body say what the exchange was.
Raised(kind, o) == [raised |-> TRUE, kind |-> kind, body |-> o.content, value |-> <<>>]
Returned(value, o) == [raised |-> FALSE, kind |-> o.kind, body |-> o.content, value |-> value]

\* One call of smaipl_chat_completion: raises, or returns the answer text.
smaipl_chat_completion(key, o) ==
    IF key = "" THEN
        \* raise RuntimeError("SMAIPL_API_KEY is not set")
        Raised("config_error", o)
    ELSE IF o.kind = "timeout" THEN
        \* client.post raises
        Raised(o.kind, o)
    ELSE IF o.kind \in {"http_4xx", "http_5xx"} THEN
        \* r.raise_for_status() raises
        Raised(o.kind, o)
    ELSE IF o.kind = "unparseable" THEN
        \* r.json() raises, outside the try of the field extraction
        Raised(o.kind, o)
    ELSE IF o.kind = "ok" THEN
        \* str(data["choices"][0]["message"]["content"])
        Returned(o.content, o)
    ELSE
        \* json.dumps(data, ensure_ascii=False)
        Returned(o.content, o)

\* The task as generate_summary_with_retry is entered with source_text.
EnterGenerate(tk, source_text) ==
    [tk EXCEPT !.source_text = source_text, !.attempt = 1, !.pc = "call"]

\* The task after one attempt of the loop ended with result r.
AfterAttempt(tk, r) ==
    IF r.raised
    THEN \* except Exception: last_err = e; await _sleep(1.5 * attempt)
         [tk EXCEPT !.log = Append(@, [kind |-> r.kind, content |-> r.body]), !.pc = "sleep"]
    ELSE \* return await smaipl_chat_completion(...)
         [tk EXCEPT !.log = Append(@, [kind |-> r.kind, content |-> r.body]), !.summary = r.value,
                    !.pc = "deliver"]

\* The task after the sleep that follows a failed attempt.
AfterSleep(tk) ==
    IF tk.attempt < MaxAttempts
    THEN [tk EXCEPT !.attempt = @ + 1, !.pc = "call"]
    ELSE \* return naive_fallback_summary(source_text)
         [tk EXCEPT !.summary = naive_fallback_summary(tk.source_text),
                    !.pc = "deliver"]

\* One buffer shared by the tasks in flight: the text of the first of them.
SharedSourceText(t) == task[CHOOSE u \in Tasks : task[u].attempt > 0].source_text

\* The local variable a running task reads as its source text.
SourceTextOf(t) == task[t].source_text

\* One attempt: the call is made with the task's own text and meets exchange o.
GenAttempt(t, o) ==
    /\ task[t].pc = "call"
    /\ task' = [task EXCEPT ![t] =
                    AfterAttempt([@ EXCEPT !.user_text = UserText(SourceTextOf(t))],
                                 smaipl_chat_completion(env.SMAIPL_API_KEY, o))]
    /\ UNCHANGED <<env, tg_app, startup, shutdown>>

GenSleepDone(t) ==
    /\ task[t].pc = "sleep"
    /\ task' = [task EXCEPT ![t] = AfterSleep(@)]
    /\ UNCHANGED <<env, tg_app, startup, shutdown>>

\* A message sent to the chat.
Msg(kind, text) == [kind |-> kind, text |-> text]

\* What the caller does with the summary: the API answers 200 with it,
\* summary_cmd replies with it and then optionally pushes it to SMAIPL.
Deliver(t, push) ==
    /\ task[t].pc = "deliver"
    /\ IF task[t].req.kind = "api"
       THEN /\ push = None
            /\ task' = [task EXCEPT ![t] = [@ EXCEPT !.status = 200, !.pc = "done"]]
       ELSE /\ push = None <=> ~env.SEND_TO_SMAIPL
            /\ task' = [task EXCEPT ![t] =
                            [@ EXCEPT !.out = Append(@, Msg("summary", task[t].summary)),
                                      !.push = push, !.status = 200, !.pc = "done"]]
    /\ UNCHANGED <<env, tg_app, startup, shutdown>>

\* The request is over; the task slot takes the next one.
Finish(t) ==
    /\ task[t].pc = "done"
    /\ task' = [task EXCEPT ![t] = IdleTask]
    /\ UNCHANGED <<env, tg_app, startup, shutdown>>

(***************************************************************************)
(* The HTTP endpoints and the Telegram handlers.                            *)
(***************************************************************************)
\* The process serves requests unless its startup raised.
ProcessUp == startup # "failed"

\* if WEBHOOK_SECRET: if x_api_key != WEBHOOK_SECRET: raise 401
ApiAuthorized(secret, key) == secret = "" \/ key = secret

\* The path check alone, the header check forgotten.
PathOnly(secret, path, header) == ~(secret # "" /\ path # secret)

\* The two secret checks of telegram_webhook: the path, then the header.
WebhookAuthorized(secret, path, header) ==
    /\ ~(secret # "" /\ path # secret)
    /\ ~(secret # "" /\ header # None /\ header # secret)

\* The task ended with an HTTP status.
Answered(tk, code) == [tk EXCEPT !.status = code, !.pc = "done"]

\* POST /api/summary with header value key and body.text text.
api_summary(t, key, text) ==
    /\ ProcessUp
    /\ task[t].pc = "idle"
    /\ LET tk == [task[t] EXCEPT !.req = [NoRequest EXCEPT !.kind = "api",
                                                         !.key = key, !.text = text]]
       IN  task' = [task EXCEPT ![t] =
                IF ~ApiAuthorized(env.WEBHOOK_SECRET, key) THEN Answered(tk, 401)
                ELSE IF Strip(text) = <<>> THEN Answered(tk, 400)
                ELSE EnterGenerate(tk, Strip(text))]
    /\ UNCHANGED <<env, tg_app, startup, shutdown>>

\* summary_cmd up to its call of generate_summary_with_retry.
summary_cmd(tk, upd) ==
    IF upd.reply = "none" \/ upd.reply = "no_text" \/ upd.text = <<>>
    THEN [Answered(tk, 200) EXCEPT !.out = Append(@, Msg("reply_needed", <<>>))]
    ELSE IF Strip(upd.text) = <<>>
    THEN [Answered(tk, 200) EXCEPT !.out = Append(@, Msg("empty_reply", <<>>))]
    ELSE EnterGenerate([tk EXCEPT !.out = Append(@, Msg("preparing", <<>>))],
                       Strip(upd.text))

\* start_cmd
start_cmd(tk) == [Answered(tk, 200) EXCEPT !.out = Append(@, Msg("greeting", <<>>))]

\* tg_app.process_update(update): the handler of the update's command runs.
process_update(tk, upd) ==
    IF upd.cmd = "start" THEN start_cmd(tk)
    ELSE IF upd.cmd = "summary" THEN summary_cmd(tk, upd)
    ELSE Answered(tk, 200)

\* The updates a webhook request can carry, the replied-to texts from texts.
Updates(texts) ==
    {[cmd |-> c, reply |-> "none", text |-> <<>>] : c \in Commands}
    \cup {[cmd |-> "summary", reply |-> "no_text", text |-> <<>>]}
    \cup {[cmd |-> "summary", reply |-> "text", text |-> x] : x \in texts}

\* if tg_app is None: raise HTTPException(503)
AppMissing == tg_app = None

\* The Application is not initialised: process_update may refuse the update.
Uninitialised == tg_app \in {"built", "shutdown"}

\* POST /webhook/{secret} with the secret-token header and an update.
telegram_webhook(t, secret, header, upd, refused) ==
    /\ ProcessUp
    /\ task[t].pc = "idle"
    /\ LET tk == [task[t] EXCEPT !.req = [kind |-> "webhook", key |-> None,
                                          secret |-> secret, header |-> header,
                                          cmd |-> upd.cmd, reply |-> upd.reply,
                                          text |-> upd.text]]
       IN  IF AppMissing THEN
               /\ ~refused
               /\ task' = [task EXCEPT ![t] = Answered(tk, 503)]
           ELSE IF ~WebhookAuthorized(env.WEBHOOK_SECRET, secret, header) THEN
               /\ ~refused
               /\ task' = [task EXCEPT ![t] = Answered(tk, 403)]
           ELSE IF refused THEN
               /\ Uninitialised
               /\ task' = [task EXCEPT ![t] =
                               Answered([tk EXCEPT !.handed = tg_app], 500)]
           ELSE
               task' = [task EXCEPT ![t] =
                            process_update([tk EXCEPT !.handed = tg_app], upd)]
    /\ UNCHANGED <<env, tg_app, startup, shutdown>>

(***************************************************************************)
(* Startup and shutdown.                                                    *)
(***************************************************************************)
\* on_startup up to its first await: no token, no application.
StartupBegin ==
    /\ startup = "pending"
    /\ IF env.BOT_TOKEN = ""
       THEN /\ startup' = "done"
            /\ UNCHANGED tg_app
       ELSE /\ tg_app' = "built"
            /\ startup' = "initialize"
    /\ UNCHANGED <<env, shutdown, task>>

\* await tg_app.initialize(): completes, or raises and startup fails.
StartupInitialize(ok) ==
    /\ startup = "initialize"
    /\ IF ok
       THEN /\ tg_app' = "initialized"
            /\ startup' = "start"
       ELSE /\ startup' = "failed"
            /\ UNCHANGED tg_app
    /\ UNCHANGED <<env, shutdown, task>>

\* await tg_app.start(), then the webhook is set only with a public URL.
StartupStart ==
    /\ startup = "start"
    /\ tg_app' = "running"
    /\ startup' = IF env.PUBLIC_BASE_URL = "" THEN "done" ELSE "set_webhook"
    /\ UNCHANGED <<env, shutdown, task>>

\* await tg_app.bot.set_webhook(...): a failure is logged, not raised.
StartupSetWebhook ==
    /\ startup = "set_webhook"
    /\ startup' = "done"
    /\ UNCHANGED <<env, tg_app, shutdown, task>>

\* on_shutdown up to its first await; it runs once startup has completed.
ShutdownBegin ==
    /\ startup = "done"
    /\ shutdown = "pending"
    /\ shutdown' = IF tg_app = None THEN "done" ELSE "stop"
    /\ UNCHANGED <<env, tg_app, startup, task>>

\* await tg_app.stop()
ShutdownStop ==
    /\ shutdown = "stop"
    /\ tg_app' = "stopped"
    /\ shutdown' = "shutdown"
    /\ UNCHANGED <<env, startup, task>>

\* await tg_app.shutdown()
ShutdownShutdown ==
    /\ shutdown = "shutdown"
    /\ tg_app' = "shutdown"
    /\ shutdown' = "done"
    /\ UNCHANGED <<env, startup, task>>

(***************************************************************************)
(* Specifications.                                                          *)
(***************************************************************************)
Lifecycle ==
    \/ StartupBegin
    \/ \E ok \in BOOLEAN : StartupInitialize(ok)
    \/ StartupStart
    \/ StartupSetWebhook
    \/ ShutdownBegin
    \/ ShutdownStop
    \/ ShutdownShutdown

\* The steps of task t, its requests drawn from the given inputs and the
\* exchanges of its summarizer calls from exch.
Serve(t, keys, secrets, headers, updates, texts, exch) ==
    \/ \E key \in keys, text \in texts : api_summary(t, key, text)
    \/ \E secret \in secrets, header \in headers, upd \in updates,
          refused \in BOOLEAN : telegram_webhook(t, secret, header, upd, refused)
    \/ \E o \in exch : GenAttempt(t, o)
    \/ GenSleepDone(t)
    \/ \E push \in {None, "ok", "failed"} : Deliver(t, push)
    \/ Finish(t)

\* The summarizer answers or times out.
PlainExchanges == {o \in HttpOutcomes : o.kind = "timeout" \/ o.content = ShortAnswer}

\* One request at a time, with any credentials and any update, in any
\* interleaving with startup and shutdown.
Next ==
    \/ Lifecycle
    \/ Serve("t1", HeaderValues, PathSecrets, HeaderValues, Updates(FewTexts), FewTexts,
             IF env.SMAIPL_API_KEY = "" THEN {NoHttp} ELSE PlainExchanges)

Spec == Init /\ [][Next]_vars

\* The process after a complete startup with the token, the webhook secret
\* and the public URL set.
InitStarted ==
    /\ env \in {e \in Envs : e.BOT_TOKEN # "" /\ e.WEBHOOK_SECRET # ""
                             /\ e.PUBLIC_BASE_URL # ""}
    /\ tg_app = "running"
    /\ startup = "done"
    /\ shutdown = "pending"
    /\ task = [t \in Tasks |-> IdleTask]

\* /summary sent as a reply to a message with text.
SummaryUpdates(texts) == {u \in Updates(texts) : u.cmd = "summary" /\ u.reply = "text"}

\* One request at a time presenting the secret, every exchange possible.
NextRetry ==
    Serve("t1", {GoodSecret}, {GoodSecret}, {None}, SummaryUpdates(Texts), Texts,
          Exchanges(env.SMAIPL_API_KEY))

SpecRetry == InitStarted /\ [][NextRetry]_vars

\* Two requests in flight at once, their steps interleaved at the awaits.
NextConcurrent ==
    \E t \in Tasks :
        Serve(t, {GoodSecret}, {GoodSecret}, {None}, SummaryUpdates(FewTexts), FewTexts,
              IF env.SMAIPL_API_KEY = "" THEN {NoHttp} ELSE PlainExchanges)

SpecConcurrent == InitStarted /\ [][NextConcurrent]_vars

(***************************************************************************)
(* Properties.                                                              *)
(***************************************************************************)
Kinds(log) == [i \in 1..Len(log) |-> log[i].kind]
Returning(tk) == tk.pc \in {"deliver", "done"}
Blank(s) == \A i \in 1..Len(s) : IsSpace(s[i])
EndsWith(s, e) == Len(e) <= Len(s) /\ SubSeq(s, Len(s) - Len(e) + 1, Len(s)) = e
Bullet(p) == <<"-", " ">> \o p \o <<".">>
SummariesSent(tk) == {i \in 1..Len(tk.out) : tk.out[i].kind = "summary"}

\* C1: a backend that fails transiently on its first k calls and then
\* succeeds is called exactly k+1 times and its successful text is what
\* generate_summary_with_retry returns; no request makes more than 3 calls:
\* a success ends the loop, a failure before the third call is retried.
C1_RetryUntilSuccess ==
    \A t \in Tasks :
        LET tk == task[t]
            n  == Len(tk.log)
        IN  /\ n <= 3
            /\ tk.pc = "call" => n = tk.attempt - 1 /\ n < 3
            /\ \A i \in 1..n : tk.log[i].kind = "ok" =>
                   i = n /\ Returning(tk) /\ tk.summary = tk.log[i].content
            /\ (Returning(tk) /\ n > 0 /\ tk.log[n].kind \in Transient) => n = 3

\* C1 witness: two transient failures, then the third call succeeds.
C1_Witness ==
    \E t \in Tasks :
        /\ task[t].pc = "done"
        /\ Kinds(task[t].log) = <<"timeout", "http_5xx", "ok">>
        /\ task[t].summary = ShortAnswer

AllTimeouts(tk) ==
    Len(tk.log) = 3 /\ \A i \in 1..3 : tk.log[i].kind = "timeout"

\* The sentences of the whole text, and of its first 2000 characters.
Sentences(text) == StripNonEmpty(SplitDot(ReplaceNewlines(text)))
CutOf(text) == SubSeq(text, 1, IF Len(text) < 2000 THEN Len(text) ELSE 2000)

\* C2 as stated: with every call timing out the request ends with a
\* non-empty fallback derived from the last lines of the text (its last
\* sentence is the last bullet), delivered to the caller.
C2_FallbackFromLastLines ==
    \A t \in Tasks :
        LET tk == task[t]
            all == Sentences(tk.source_text)
        IN  (AllTimeouts(tk) /\ Returning(tk)) =>
                /\ tk.summary # <<>>
                /\ all # <<>> => EndsWith(tk.summary, Bullet(all[Len(all)]))

\* The header, then one bullet for each of the first (at most five)
\* sentences of the first 2000 characters, or those characters themselves
\* when they hold no sentence.
ExpectedFallback(text) ==
    LET cut == CutOf(text)
        first == Sentences(cut)
        k == IF Len(first) < 5 THEN Len(first) ELSE 5
    IN  FallbackHeader \o (IF k = 0 THEN cut ELSE JoinBullets(SubSeq(first, 1, k)))

\* C2 amended: with every call timing out the request ends, without raising,
\* with a non-empty fallback: the header followed by one bullet for each of
\* the first (at most five) sentences of the first 2000 characters of the
\* text, or by those characters when they hold no sentence; the caller
\* delivers it (status 200, the summary as the last chat reply).
C2_FallbackFromFirstSentences ==
    \A t \in Tasks :
        LET tk == task[t]
        IN  (AllTimeouts(tk) /\ Returning(tk)) =>
                /\ tk.summary # <<>>
                /\ tk.summary = ExpectedFallback(tk.source_text)
                /\ tk.pc = "done" =>
                       /\ tk.status = 200
                       /\ tk.req.kind = "webhook" =>
                              tk.out[Len(tk.out)] = Msg("summary", tk.summary)

\* C2 witness: /summary on the six-sentence text, three timeouts, delivered.
C2_Witness ==
    \E t \in Tasks :
        /\ task[t].pc = "done"
        /\ AllTimeouts(task[t])
        /\ task[t].req.kind = "webhook"
        /\ task[t].req.text = SixSentences

\* C3: a call answered with a 4xx status is not retried (it is the last
\* call of the request) and no summary is produced for the user.
C3_NoRetryOn4xx ==
    \A t \in Tasks :
        \A i \in 1..Len(task[t].log) :
            task[t].log[i].kind = "http_4xx" =>
                /\ i = Len(task[t].log)
                /\ task[t].summary = <<>>
                /\ SummariesSent(task[t]) = {}

\* The request of the task has nothing to summarize.
NothingToSummarize(r) ==
    \/ r.kind = "api" /\ Blank(r.text)
    \/ r.kind = "webhook" /\ r.cmd = "summary" /\ (r.reply # "text" \/ Blank(r.text))

\* The update of the task was dispatched to summary_cmd.
SummaryCmdRan(tk) ==
    tk.req.kind = "webhook" /\ tk.req.cmd = "summary" /\ tk.handed # None /\ tk.status # 500

Informational == {Msg("reply_needed", <<>>), Msg("empty_reply", <<>>)}

\* C4 as stated: a request with nothing to summarize never reaches
\* generate_summary_with_retry or the backend, summary_cmd answers it with
\* one informational reply and api_summary with HTTP 400.
C4_EmptyInputSignal ==
    \A t \in Tasks :
        LET tk == task[t]
        IN  NothingToSummarize(tk.req) =>
                /\ tk.attempt = 0 /\ tk.log = <<>> /\ tk.summary = <<>>
                /\ tk.req.kind = "api" => tk.status = 400
                /\ SummaryCmdRan(tk) => Len(tk.out) = 1 /\ tk.out[1] \in Informational

\* C4 amended: such a request never reaches generate_summary_with_retry or
\* the backend; summary_cmd answers it with one informational reply;
\* api_summary answers it with HTTP 400 when the request passes the API-key
\* check, and with 401 when it does not.
C4_EmptyInputNoCall ==
    \A t \in Tasks :
        LET tk == task[t]
            keyed == env.WEBHOOK_SECRET = "" \/ tk.req.key = env.WEBHOOK_SECRET
        IN  NothingToSummarize(tk.req) =>
                /\ tk.attempt = 0 /\ tk.log = <<>> /\ tk.summary = <<>>
                /\ tk.req.kind = "api" => tk.status = (IF keyed THEN 400 ELSE 401)
                /\ SummaryCmdRan(tk) => Len(tk.out) = 1 /\ tk.out[1] \in Informational

\* C4 witness: both handlers have met a whitespace-only text.
C4_Witness ==
    \E t \in Tasks :
        /\ task[t].pc = "done"
        /\ task[t].req.text = <<"\n", " ">>
        /\ \/ task[t].req.kind = "api" /\ task[t].status = 400
           \/ SummaryCmdRan(task[t]) /\ task[t].out = <<Msg("empty_reply", <<>>)>>

\* C5: a 2xx response with an unparseable body or an unexpected JSON shape
\* ends the request's calls: the call returns the raw body as the answer,
\* nothing is retried and the fallback is not used.
C5_MalformedIsAnswered ==
    \A t \in Tasks :
        \A i \in 1..Len(task[t].log) :
            task[t].log[i].kind \in {"unparseable", "odd_shape"} =>
                /\ i = Len(task[t].log)
                /\ Returning(task[t])
                /\ task[t].summary = task[t].log[i].content

\* C6: every summary summary_cmd sends to the chat fits the transport's
\* message-size limit.
C6_SummaryFitsTransport ==
    \A t \in Tasks :
        \A i \in SummariesSent(task[t]) :
            Len(task[t].out[i].text) <= TransportLimit

\* C7: with a required setting missing the process does not complete its
\* startup, and no configuration error is raised inside a request.
C7_ConfigFatalAtStartupOnly ==
    /\ (env.BOT_TOKEN = "" \/ env.SMAIPL_API_KEY = "") => startup # "done"
    /\ \A t \in Tasks :
           \A i \in 1..Len(task[t].log) : task[t].log[i].kind # "config_error"

\* The task carries a request in flight with its text read.
InFlight(tk) == tk.attempt > 0

\* x is s without its leading and trailing whitespace.
IsTrimOf(x, s) ==
    /\ x # <<>> /\ ~IsSpace(x[1]) /\ ~IsSpace(x[Len(x)])
    /\ \E i \in 1..Len(s) :
           /\ SubSeq(s, i, i + Len(x) - 1) = x
           /\ Blank(SubSeq(s, 1, i - 1))
           /\ Blank(SubSeq(s, i + Len(x), Len(s)))

\* C8: two summarize requests in flight at once each work on their own
\* snapshot: the text a request summarizes is the text of its own replied-to
\* message (trimmed), and every call it makes, and its fallback, is computed
\* from that text, whatever the other request does.
C8_OwnSnapshot ==
    \A t \in Tasks :
        LET tk == task[t]
        IN  InFlight(tk) =>
                /\ IsTrimOf(tk.source_text, tk.req.text)
                /\ tk.log # <<>> => tk.user_text = TextLabel \o tk.source_text
                /\ (Returning(tk) /\ tk.log[Len(tk.log)].kind = "timeout") =>
                       tk.summary = ExpectedFallback(tk.source_text)

\* C8 witness: both tasks have called the backend for different texts and
\* neither has finished.
C8_Witness ==
    /\ \A t \in Tasks : task[t].pc = "sleep" /\ task[t].req.kind = "webhook"
    /\ task["t1"].source_text # task["t2"].source_text

\* The request of the task presents what the secret asks of it.
PresentsSecret(r) ==
    \/ r.kind = "api" /\ r.key = env.WEBHOOK_SECRET
    \/ r.kind = "webhook" /\ r.secret = env.WEBHOOK_SECRET
           /\ r.header \in {None, env.WEBHOOK_SECRET}

\* No protected work is done for a request that fails to present the secret.
NoProtectedWork(tk) ==
    (env.WEBHOOK_SECRET # "" /\ tk.req.kind # "none" /\ ~PresentsSecret(tk.req)) =>
        tk.attempt = 0 /\ tk.log = <<>> /\ tk.handed = None /\ tk.out = <<>>

\* Task t takes a request in this step.
Arrives(t) == task[t].pc = "idle" /\ task'[t].pc # "idle"

\* C9 as stated: with WEBHOOK_SECRET set, a request that fails to present
\* it causes no protected work and is answered 401 by api_summary (whatever
\* its text) and 403 by telegram_webhook.
C9_RejectedWith401Or403 ==
    [][\A t \in Tasks :
          /\ NoProtectedWork(task'[t])
          /\ (Arrives(t) /\ env.WEBHOOK_SECRET # "" /\ ~PresentsSecret(task'[t].req)) =>
                 task'[t].status = (IF task'[t].req.kind = "api" THEN 401 ELSE 403)]_vars

\* C9 amended: with WEBHOOK_SECRET set, a request that fails to present it
\* causes no protected work; api_summary answers it 401 (whatever its text),
\* telegram_webhook answers it 403, or 503 when tg_app is None, which it
\* checks before the secret.
C9_RejectedBeforeWork ==
    [][\A t \in Tasks :
          /\ NoProtectedWork(task'[t])
          /\ (Arrives(t) /\ env.WEBHOOK_SECRET # "" /\ ~PresentsSecret(task'[t].req)) =>
                 task'[t].status = (IF task'[t].req.kind = "api" THEN 401
                                    ELSE IF tg_app = None THEN 503 ELSE 403)]_vars

\* C9 witness: a webhook request with the right path and a wrong header
\* was answered 403.
C9_Witness ==
    \E t \in Tasks :
        /\ env.WEBHOOK_SECRET # ""
        /\ task[t].req.kind = "webhook"
        /\ task[t].req.secret = env.WEBHOOK_SECRET
        /\ task[t].req.header = "wrong"
        /\ task[t].status = 403

====
